---- MODULE Spec2Model ----
(***************************************************************************)
(* A model of nameko-autocrud: the storage facade (storage.py, DBStorage)  *)
(* over a SQLAlchemy-style unit-of-work session, and the dependency        *)
(* provider (__init__.py, AutoCrud) that synthesizes RPC methods on the    *)
(* service class and wires a facade and a session to every worker.         *)
(***************************************************************************)
EXTENDS Integers, Sequences, FiniteSets, TLC

(***************************************************************************)
(* Bounds of the model.                                                    *)
(***************************************************************************)
MaxPk == 3
MaxFlagPk == 1
MaxRows == 2
MaxPage == 2
MaxFilterLen == 1
MaxOverrides == 2
MaxUserAttrs == 1
MaxBinds == 2
MaxWorkers == 2
MaxInvocations == 2

(***************************************************************************)
(* Python values.  An optional value is <<>> (None) or <<v>>.              *)
(***************************************************************************)
None == <<>>
Some(v) == <<v>>
Absent == "<no row>"
Null == "<null>"
Values == {"a", "b"}
PKs == 1 .. MaxPk
FlagPKs == 1 .. MaxFlagPk
DefaultFlags == {<<TRUE, TRUE>>}
AllFlags == BOOLEAN \X BOOLEAN
EmptyDict == [k \in {} |-> Null]
DataSet == {EmptyDict} \cup {[name |-> v] : v \in Values}

VARIABLES
    session,     \* the unit of work the facade is attached to
    last,        \* the last DBStorage call: its arguments, outcome and session calls
    created,     \* history: keys returned by a create and not deleted since
    written,     \* history: per key, the state left by its last create or update
    allDefault,  \* history: every call so far used the default flush/commit flags
                 \* (created and written are kept only while this holds)
    qEngine,     \* the order in which the storage engine yields unsorted rows
    qArgs,       \* the arguments of the list and count calls under way
    qPaged,      \* what list(filters, loads, order_by, offset, limit) returned
    qAll,        \* what list(filters, loads, order_by) returned
    qCount,      \* what count(filters) returned
    config,      \* the arguments AutoCrud was constructed with
    method_names,\* AutoCrud.method_names: logical operation -> RPC method name
    service_cls, \* the attributes of the service class
    cls0,        \* history: the attributes of the service class before any bind
    cls1,        \* history: the attributes of the service class after the first bind
    fnCount,     \* the number of functions make_manager_fn has made
    binds,       \* the number of times bind has run
    pc,          \* per worker: how far the container has taken its invocation
    svc,         \* per worker: the service instance of its invocation
    facades,     \* the DBStorage instances made so far, by reference
    call,        \* per worker: the synthesized method it is running
    mgrCount,    \* the number of managers constructed
    spawns,      \* the number of service instances the container has made
    invokes,     \* history: the number of synthesized-method invocations
    uses         \* history: the storage operations performed, with facade and session

storageVars == <<session, last, created, written, allDefault>>
queryVars == <<qEngine, qArgs, qPaged, qAll, qCount>>
bindVars == <<config, method_names, service_cls, cls0, cls1, fnCount, binds>>
workerVars == <<pc, svc, facades, call, mgrCount, spawns, invokes, uses>>
vars == <<storageVars, queryVars, bindVars, workerVars>>

(***************************************************************************)
(* The session.  durable is what is committed, flushed is what the open    *)
(* transaction sees, objs is the in-memory state of the persistent         *)
(* objects (attribute assignments not yet flushed included), deleted the   *)
(* objects marked for removal and new the objects added but not flushed.   *)
(***************************************************************************)
EmptyTable(keys) == [pk \in keys |-> Absent]

\* a session on an empty store whose engine has the keys `keys` to give
NewSession(keys) ==
    [durable |-> EmptyTable(keys), flushed |-> EmptyTable(keys),
     objs |-> EmptyTable(keys), deleted |-> {}, new |-> <<>>]

Keys(s) == DOMAIN s.objs

\* session.query(model_cls).get(pk): the object of the identity map, or None
QueryGet(s, pk) ==
    IF s.objs[pk] = Absent THEN None ELSE Some([id |-> Some(pk), name |-> s.objs[pk]])

\* model_cls(**data): a transient object, its key not yet assigned
ModelCls(data) ==
    [id |-> None, name |-> IF "name" \in DOMAIN data THEN data.name ELSE Null]

SessionAdd(s, obj) == [s EXCEPT !.new = Append(@, obj.name)]

SessionDelete(s, pk) == [s EXCEPT !.deleted = @ \cup {pk}]

\* for key, value in data.items(): setattr(obj, key, value)
SetAttrs(s, pk, data) ==
    [s EXCEPT !.objs[pk] = IF "name" \in DOMAIN data THEN data.name ELSE @]

\* the keys the storage engine may give the pending objects of s
Allocations(s) ==
    {al \in [1 .. Len(s.new) -> {pk \in Keys(s) : s.flushed[pk] = Absent}] :
        \A i, j \in 1 .. Len(s.new) : al[i] = al[j] => i = j}

\* session.flush(): inserts, updates and deletes reach the transaction
SessionFlush(s, alloc) ==
    LET inserted == [pk \in Keys(s) |->
                        IF \E i \in 1 .. Len(s.new) : alloc[i] = pk
                        THEN s.new[CHOOSE i \in 1 .. Len(s.new) : alloc[i] = pk]
                        ELSE s.objs[pk]]
        table == [pk \in Keys(s) |-> IF pk \in s.deleted THEN Absent ELSE inserted[pk]]
    IN  [s EXCEPT !.flushed = table, !.objs = table, !.deleted = {}, !.new = <<>>]

\* session.commit(): a flush, then the transaction becomes durable
SessionCommit(s, alloc) ==
    LET f == SessionFlush(s, alloc) IN [f EXCEPT !.durable = f.flushed]

\* session.refresh(obj): the object's state as the transaction has it
SessionRefresh(s, pk) == [id |-> Some(pk), name |-> s.flushed[pk]]

(***************************************************************************)
(* DBStorage.  Every operation yields its outcome, the object it returns,  *)
(* the session it leaves and the session calls it issued.                  *)
(***************************************************************************)
Raise(s, calls) == [status |-> "NotFound", obj |-> None, session |-> s, calls |-> calls]

Return(s, obj, calls) == [status |-> "ok", obj |-> obj, session |-> s, calls |-> calls]

C1_GetNoCheck(s, pk) == Return(s, QueryGet(s, pk), <<"get">>)

\* DBStorage._get
Get_(s, pk) ==
    LET obj == QueryGet(s, pk)
    IN  IF obj = None THEN Raise(s, <<"get">>) ELSE Return(s, obj, <<"get">>)

\* DBStorage.get
Get(s, pk) == Get_(s, pk)

C4_UpdateFlushFirst(s, pk, data, flush, commit, alloc) ==
    LET got == Get_(s, pk)
        s1 == SetAttrs(s, pk, data)
    IN  IF got.status # "ok" THEN got
        ELSE IF flush
        THEN LET s2 == SessionFlush(s1, alloc)
             IN  Return(s2, Some(SessionRefresh(s2, pk)), <<"get", "setattr", "flush", "refresh">>)
        ELSE IF commit
        THEN LET s2 == SessionCommit(s1, alloc)
             IN  Return(s2, Some(SessionRefresh(s2, pk)), <<"get", "setattr", "commit", "refresh">>)
        ELSE Return(s1, QueryGet(s1, pk), <<"get", "setattr">>)

\* DBStorage.update
Update(s, pk, data, flush, commit, alloc) ==
    LET got == Get_(s, pk)
        s1 == SetAttrs(s, pk, data)
    IN  IF got.status # "ok" THEN got
        ELSE IF commit
        THEN LET s2 == SessionCommit(s1, alloc)
             IN  Return(s2, Some(SessionRefresh(s2, pk)), <<"get", "setattr", "commit", "refresh">>)
        ELSE IF flush
        THEN LET s2 == SessionFlush(s1, alloc)
             IN  Return(s2, Some(SessionRefresh(s2, pk)), <<"get", "setattr", "flush", "refresh">>)
        ELSE Return(s1, QueryGet(s1, pk), <<"get", "setattr">>)

\* DBStorage.create: alloc gives the new object, the last one added, its key
Create(s, data, flush, commit, alloc) ==
    LET obj == ModelCls(data)
        s1 == SessionAdd(s, obj)
        pk == alloc[Len(s1.new)]
    IN  IF commit
        THEN LET s2 == SessionCommit(s1, alloc)
             IN  Return(s2, Some(SessionRefresh(s2, pk)), <<"add", "commit", "refresh">>)
        ELSE IF flush
        THEN LET s2 == SessionFlush(s1, alloc)
             IN  Return(s2, Some(SessionRefresh(s2, pk)), <<"add", "flush", "refresh">>)
        ELSE Return(s1, Some(obj), <<"add">>)

C8_DeleteNoMark(s, pk, flush, commit, alloc) ==
    LET got == Get_(s, pk)
    IN  IF got.status # "ok" THEN got
        ELSE IF commit THEN Return(SessionCommit(s, alloc), None, <<"get", "commit">>)
        ELSE IF flush THEN Return(SessionFlush(s, alloc), None, <<"get", "flush">>)
        ELSE Return(s, None, <<"get">>)

\* DBStorage.delete
Delete(s, pk, flush, commit, alloc) ==
    LET got == Get_(s, pk)
        s1 == SessionDelete(s, pk)
    IN  IF got.status # "ok" THEN got
        ELSE IF commit THEN Return(SessionCommit(s1, alloc), None, <<"get", "delete", "commit">>)
        ELSE IF flush THEN Return(SessionFlush(s1, alloc), None, <<"get", "delete", "flush">>)
        ELSE Return(s1, None, <<"get", "delete">>)

(***************************************************************************)
(* The storage facade at work: calls on one session.                       *)
(***************************************************************************)
Call(op, pk, data, flush, commit, r) ==
    [op |-> op, pk |-> pk, data |-> data, flush |-> flush, commit |-> commit,
     status |-> r.status, calls |-> r.calls]

NoCall == [op |-> "none", pk |-> None, data |-> EmptyDict, flush |-> TRUE, commit |-> TRUE,
           status |-> "ok", calls |-> <<>>]

Workers == 1 .. MaxWorkers

NoWorkers ==
    /\ pc = [w \in Workers |-> "idle"]
    /\ svc = [w \in Workers |-> None]
    /\ facades = <<>>
    /\ call = [w \in Workers |-> None]
    /\ mgrCount = 0
    /\ spawns = 0
    /\ invokes = 0
    /\ uses = {}

NoProvider ==
    /\ NoWorkers
    /\ config = None
    /\ method_names = None
    /\ service_cls = None
    /\ cls0 = None
    /\ cls1 = None
    /\ fnCount = 0
    /\ binds = 0

NoQuery ==
    /\ qEngine = <<>>
    /\ qArgs = None
    /\ qPaged = None
    /\ qAll = None
    /\ qCount = None

InitStorage(keys) ==
    /\ NoQuery
    /\ NoProvider
    /\ session = NewSession(keys)
    /\ last = NoCall
    /\ created = {}
    /\ written = EmptyTable(keys)
    /\ allDefault = TRUE

DoGet ==
    \E pk \in Keys(session) :
        LET r == Get(session, pk)
        IN  /\ last' = Call("get", Some(pk), EmptyDict, TRUE, TRUE, r)
            /\ session' = r.session
            /\ UNCHANGED <<created, written, allDefault>>
            /\ UNCHANGED <<queryVars, bindVars, workerVars>>

DoCreate(flags) ==
    \E data \in DataSet, fc \in flags :
        \E alloc \in Allocations(SessionAdd(session, ModelCls(data))) :
            LET flush == fc[1]
                commit == fc[2]
                r == Create(session, data, flush, commit, alloc)
                obj == r.obj[1]
            IN  /\ last' = Call("create", None, data, flush, commit, r)
                /\ session' = r.session
                /\ allDefault' = (allDefault /\ flush /\ commit)
                /\ created' = IF allDefault' THEN created \cup {obj.id[1]} ELSE {}
                /\ written' = IF allDefault'
                              THEN [written EXCEPT ![obj.id[1]] = obj.name]
                              ELSE EmptyTable(Keys(session))
                /\ UNCHANGED <<queryVars, bindVars, workerVars>>

DoUpdate(flags) ==
    \E pk \in Keys(session), data \in DataSet, fc \in flags :
        \E alloc \in Allocations(session) :
            LET flush == fc[1]
                commit == fc[2]
                r == Update(session, pk, data, flush, commit, alloc)
            IN  /\ last' = Call("update", Some(pk), data, flush, commit, r)
                /\ session' = r.session
                /\ allDefault' = (allDefault /\ flush /\ commit)
                /\ created' = IF allDefault' THEN created ELSE {}
                /\ written' = IF ~allDefault' THEN EmptyTable(Keys(session))
                              ELSE IF r.status = "ok"
                              THEN [written EXCEPT ![pk] = r.obj[1].name]
                              ELSE written
                /\ UNCHANGED <<queryVars, bindVars, workerVars>>

DoDelete(flags) ==
    \E pk \in Keys(session), fc \in flags :
        \E alloc \in Allocations(session) :
            LET flush == fc[1]
                commit == fc[2]
                r == Delete(session, pk, flush, commit, alloc)
            IN  /\ last' = Call("delete", Some(pk), EmptyDict, flush, commit, r)
                /\ session' = r.session
                /\ allDefault' = (allDefault /\ flush /\ commit)
                /\ created' = IF ~allDefault' THEN {}
                              ELSE IF r.status = "ok" THEN created \ {pk} ELSE created
                /\ written' = IF ~allDefault' THEN EmptyTable(Keys(session))
                              ELSE IF r.status = "ok"
                              THEN [written EXCEPT ![pk] = Absent]
                              ELSE written
                /\ UNCHANGED <<queryVars, bindVars, workerVars>>

\* calls with the default flags (flush=True, commit=True)
NextStorage ==
    \/ DoGet
    \/ DoCreate(DefaultFlags)
    \/ DoUpdate(DefaultFlags)
    \/ DoDelete(DefaultFlags)

Spec == InitStorage(PKs) /\ [][NextStorage]_vars

\* calls with every combination of flush and commit
NextFlags ==
    \/ DoGet
    \/ DoCreate(AllFlags)
    \/ DoUpdate(AllFlags)
    \/ DoDelete(AllFlags)

SpecFlags == InitStorage(FlagPKs) /\ [][NextFlags]_vars

(***************************************************************************)
(* Properties of the storage facade.                                       *)
(***************************************************************************)
Issued(c, name) == \E i \in 1 .. Len(c.calls) : c.calls[i] = name

Mutators == {"create", "update", "delete"}

\* C1: get, update and delete of a key that is not in storage fail with
\* NotFound; on that failure no attribute was assigned, nothing was marked
\* for removal and no flush and no commit was issued on the session.
C1_NotFound ==
    [][(last'.op \in {"get", "update", "delete"} /\ QueryGet(session, last'.pk[1]) = None)
        => /\ last'.status = "NotFound"
           /\ session' = session
           /\ \A c \in {"setattr", "delete", "flush", "commit"} : ~Issued(last', c)]_vars

C1_Witness ==
    /\ last.op = "update"
    /\ last.status = "NotFound"
    /\ \E pk \in Keys(session) : session.objs[pk] # Absent

\* C4: create, update and delete commit when commit is requested, whatever
\* flush is; flush and do not commit when only flush is requested; and issue
\* neither when neither is requested, the mutation then staying pending in
\* the session, out of the transaction and out of durable storage, which
\* only a commit changes.
C4_FlushCommit ==
    [][(last'.op \in Mutators /\ last'.status = "ok")
        => /\ session'.durable # session.durable => Issued(last', "commit")
           /\ last'.commit
                => /\ Issued(last', "commit")
                   /\ session'.durable = session'.objs
                   /\ session'.flushed = session'.objs
                   /\ session'.new = <<>> /\ session'.deleted = {}
           /\ (~last'.commit /\ last'.flush)
                => /\ Issued(last', "flush") /\ ~Issued(last', "commit")
                   /\ session'.durable = session.durable
                   /\ session'.flushed = session'.objs
                   /\ session'.new = <<>> /\ session'.deleted = {}
           /\ (~last'.commit /\ ~last'.flush)
                => /\ ~Issued(last', "flush") /\ ~Issued(last', "commit")
                   /\ session'.durable = session.durable
                   /\ session'.flushed = session.flushed
                   /\ last'.op = "create" => Len(session'.new) = Len(session.new) + 1
                   /\ last'.op = "delete" => last'.pk[1] \in session'.deleted
                   /\ (last'.op = "update" /\ "name" \in DOMAIN last'.data)
                        => session'.objs[last'.pk[1]] = last'.data.name]_vars

C4_Witness ==
    /\ last.op = "update" /\ last.status = "ok"
    /\ last.commit /\ ~last.flush
    /\ "name" \in DOMAIN last.data
    /\ session.durable[last.pk[1]] = last.data.name

\* C8: with the default flags, get(pk) succeeds exactly for the keys a create
\* returned and no delete removed since, and returns the object as its last
\* create or update left it; after a successful delete(pk), get(pk) fails.
C8_GetAfterWrites ==
    allDefault =>
        /\ \A pk \in Keys(session) :
            LET r == Get(session, pk)
            IN  /\ (r.status = "ok") <=> (pk \in created)
                /\ pk \in created => r.obj = Some([id |-> Some(pk), name |-> written[pk]])
                /\ pk \notin created => r.status = "NotFound"
        /\ (last.op = "delete" /\ last.status = "ok")
            => Get(session, last.pk[1]).status = "NotFound"

C8_Witness ==
    /\ allDefault
    /\ last.op = "delete" /\ last.status = "ok"
    /\ \E pk \in created : written[pk] = "b"

(***************************************************************************)
(* Queries.  A query is the rows it selects, in order, with the offset,    *)
(* the limit and the load hints set on it; all() and count() run it.       *)
(***************************************************************************)
\* Python truth of an optional list, string or integer: None, [], "" and 0 are false
TruthySeq(opt) == opt # None /\ opt[1] # <<>>

TruthyStr(opt) == opt # None /\ opt[1] # ""

TruthyInt(opt) == opt # None /\ opt[1] # 0

NameRank == [v \in Values |-> IF v = "a" THEN 1 ELSE 2]

Min(a, b) == IF a < b THEN a ELSE b

\* session.query(model_cls): the rows of the transaction, in the engine's order
Query(s, engine) ==
    LET present == SelectSeq(engine, LAMBDA pk : s.flushed[pk] # Absent)
    IN  [rows |-> [i \in 1 .. Len(present) |->
                      [id |-> Some(present[i]), name |-> s.flushed[present[i]]]],
         offset |-> None, limit |-> None, loads |-> None]

Matches(row, clause) ==
    IF clause.op = "==" THEN row[clause.field] = clause.value
    ELSE row[clause.field] # clause.value

\* sqlalchemy_filters.apply_filters: the rows every clause accepts
ApplyFilters(q, filters) ==
    [q EXCEPT !.rows = SelectSeq(@, LAMBDA row :
        \A i \in 1 .. Len(filters) : Matches(row, filters[i]))]

\* sqlalchemy_filters.apply_loads: restricts the columns fetched, not the rows
ApplyLoads(q, loads) == [q EXCEPT !.loads = Some(loads)]

SortKey(row, field) == IF field = "id" THEN row.id[1] ELSE NameRank[row.name]

RECURSIVE Before(_, _, _)
Before(r1, r2, order) ==
    IF order = <<>> THEN FALSE
    ELSE LET a == SortKey(r1, Head(order).field)
             b == SortKey(r2, Head(order).field)
         IN  IF a = b THEN Before(r1, r2, Tail(order))
             ELSE IF Head(order).direction = "asc" THEN a < b ELSE a > b

RECURSIVE SortRows(_, _)
SortRows(rows, order) ==
    IF rows = <<>> THEN <<>>
    ELSE LET n == Len(rows)
             sorted == SortRows(SubSeq(rows, 1, n - 1), order)
             r == rows[n]
             k == Cardinality({i \in 1 .. n - 1 : ~Before(r, sorted[i], order)})
         IN  SubSeq(sorted, 1, k) \o <<r>> \o SubSeq(sorted, k + 1, n - 1)

\* sqlalchemy_filters.apply_sort: ORDER BY, ties left in the engine's order
ApplySort(q, order) == [q EXCEPT !.rows = SortRows(@, order)]

QueryOffset(q, n) == [q EXCEPT !.offset = Some(n)]

QueryLimit(q, n) == [q EXCEPT !.limit = Some(n)]

\* query.all(): OFFSET and LIMIT apply to the selected, ordered rows
QueryAll(q) ==
    LET skip == IF q.offset = None THEN 0 ELSE Min(q.offset[1], Len(q.rows))
        rest == Len(q.rows) - skip
        take == IF q.limit = None THEN rest ELSE Min(q.limit[1], rest)
    IN  [i \in 1 .. take |-> q.rows[skip + i]]

\* query.count(): SELECT count(*) over the query
QueryCount(q) == Cardinality(DOMAIN QueryAll(q))

\* DBStorage.list
List(s, engine, filters, loads, order_by, offset, limit) ==
    LET q0 == Query(s, engine)
        q1 == IF TruthySeq(filters) THEN ApplyFilters(q0, filters[1]) ELSE q0
        q2 == IF TruthyStr(loads) THEN ApplyLoads(q1, loads[1]) ELSE q1
        q3 == IF TruthySeq(order_by) THEN ApplySort(q2, order_by[1]) ELSE q2
        q4 == IF TruthyInt(offset) THEN QueryOffset(q3, offset[1]) ELSE q3
        q5 == IF TruthyInt(limit) THEN QueryLimit(q4, limit[1]) ELSE q4
    IN  QueryAll(q5)

C3_CountUnfiltered(s, engine, filters) == QueryCount(Query(s, engine))

\* DBStorage.count
Count(s, engine, filters) ==
    LET q0 == Query(s, engine)
        q1 == IF TruthySeq(filters) THEN ApplyFilters(q0, filters[1]) ELSE q0
    IN  QueryCount(q1)

(***************************************************************************)
(* list and count calls on a store holding any rows.                       *)
(***************************************************************************)
RowKeys == 1 .. MaxRows

Orderings(S) ==
    {p \in [1 .. Cardinality(S) -> S] : \A i, j \in DOMAIN p : p[i] = p[j] => i = j}

Clauses == {[field |-> "name", op |-> o, value |-> v] : o \in {"==", "!="}, v \in {"a"}}

RECURSIVE SeqsUpTo(_, _)
SeqsUpTo(S, n) ==
    IF n = 0 THEN {<<>>}
    ELSE LET shorter == SeqsUpTo(S, n - 1)
         IN  shorter \cup {Append(q, x) : q \in shorter, x \in S}

Optional(S) == {None} \cup {Some(x) : x \in S}

Orders == {<<>>, <<[field |-> "name", direction |-> "asc"]>>,
           <<[field |-> "name", direction |-> "desc"], [field |-> "id", direction |-> "desc"]>>}

ArgSet ==
    [filters : Optional(SeqsUpTo(Clauses, MaxFilterLen)),
     loads : Optional({"name"}),
     order_by : Optional(Orders),
     offset : Optional(0 .. MaxPage),
     limit : Optional(0 .. MaxPage)]

\* a session whose transaction holds the committed rows `table`
Stored(table) ==
    [durable |-> table, flushed |-> table, objs |-> table, deleted |-> {}, new |-> <<>>]

InitQuery ==
    /\ session \in {Stored(tb) : tb \in [RowKeys -> Values \cup {Absent}]}
    /\ last = NoCall
    /\ created = {}
    /\ written = EmptyTable(RowKeys)
    /\ allDefault = TRUE
    /\ qEngine \in Orderings(RowKeys)
    /\ qArgs \in {Some(a) : a \in ArgSet}
    /\ qPaged = None
    /\ qAll = None
    /\ qCount = None
    /\ NoProvider

DoListPaged ==
    /\ qPaged = None
    /\ qPaged' = Some(List(session, qEngine, qArgs[1].filters, qArgs[1].loads,
                           qArgs[1].order_by, qArgs[1].offset, qArgs[1].limit))
    /\ UNCHANGED <<storageVars, qEngine, qArgs, qAll, qCount>>
    /\ UNCHANGED <<bindVars, workerVars>>

DoListAll ==
    /\ qAll = None
    /\ qAll' = Some(List(session, qEngine, qArgs[1].filters, qArgs[1].loads,
                         qArgs[1].order_by, None, None))
    /\ UNCHANGED <<storageVars, qEngine, qArgs, qPaged, qCount>>
    /\ UNCHANGED <<bindVars, workerVars>>

DoCount ==
    /\ qCount = None
    /\ qCount' = Some(Count(session, qEngine, qArgs[1].filters))
    /\ UNCHANGED <<storageVars, qEngine, qArgs, qPaged, qAll>>
    /\ UNCHANGED <<bindVars, workerVars>>

NextQuery == DoListPaged \/ DoListAll \/ DoCount

SpecQuery == InitQuery /\ [][NextQuery]_vars

\* Python's seq[lo:hi] for 0 <= lo <= hi
PySlice(seq, lo, hi) ==
    LET from == Min(lo, Len(seq))
        to == Min(hi, Len(seq))
    IN  [i \in 1 .. to - from |-> seq[from + i]]

\* C2: for every offset O >= 0 and limit L >= 0, list(filters, offset=O,
\* limit=L) is the slice [O : O+L] of list(filters), order_by held fixed.
C2_PageIsSlice ==
    (/\ qPaged # None /\ qAll # None
     /\ qArgs[1].offset # None /\ qArgs[1].limit # None)
        => qPaged[1] = PySlice(qAll[1], qArgs[1].offset[1],
                               qArgs[1].offset[1] + qArgs[1].limit[1])

\* C3: count(filters) is the number of elements list(filters) returns,
\* filters absent, empty or not.
C3_CountIsLength ==
    (qCount # None /\ qAll # None) => qCount[1] = Len(qAll[1])

C3_Witness ==
    /\ qCount # None /\ qAll # None
    /\ TruthySeq(qArgs[1].filters)
    /\ qCount[1] > 0
    /\ qCount[1] < Cardinality({pk \in RowKeys : session.flushed[pk] # Absent})

(***************************************************************************)
(* AutoCrud: the method names it resolves and the methods bind attaches.   *)
(***************************************************************************)
DEFAULT == "<DEFAULT>"

Ops == {"get", "list", "page", "count", "create", "update", "delete"}

\* the order in which self.method_names yields its items
OpOrder == <<"get", "list", "page", "count", "create", "update", "delete">>

\* model_cls.__name__.lower()
Lower(name) == IF name = "Widget" THEN "widget" ELSE name

C7_MethodNameNoPlural(prefix, custom, plural, entity_name, entity_name_plural) ==
    IF custom = DEFAULT THEN prefix \o entity_name ELSE custom

\* make_methodname, in AutoCrud.__init__
MakeMethodName(prefix, custom, plural, entity_name, entity_name_plural) ==
    IF custom = DEFAULT
    THEN prefix \o (IF plural THEN entity_name_plural ELSE entity_name)
    ELSE custom

\* AutoCrud.__init__: self.method_names
MethodNames(cfg) ==
    LET entity_name == IF TruthyStr(cfg.entity_name)
                       THEN cfg.entity_name[1] ELSE Lower(cfg.model_cls)
        entity_name_plural == IF TruthyStr(cfg.entity_name_plural)
                              THEN cfg.entity_name_plural[1] ELSE entity_name \o "s"
        name(prefix, custom, plural) ==
            MakeMethodName(prefix, custom, plural, entity_name, entity_name_plural)
    IN  [op \in Ops |->
            CASE op = "get" -> name("get_", cfg.names.get, FALSE)
              [] op = "list" -> name("list_", cfg.names.list, TRUE)
              [] op = "page" -> name("page_", cfg.names.page, TRUE)
              [] op = "count" -> name("count_", cfg.names.count, TRUE)
              [] op = "create" -> name("create_", cfg.names.create, FALSE)
              [] op = "update" -> name("update_", cfg.names.update, FALSE)
              [] op = "delete" -> name("delete_", cfg.names.delete, FALSE)]

\* a class attribute: one the service author wrote, truthy (a method) or falsy
\* (None, 0, an empty container), or a function made by make_manager_fn
UserAttr(truthy) == [kind |-> "user", truthy |-> truthy, fn_name |-> "", id |-> 0]

ManagerFn(fn_name, id) == [kind |-> "rpc", truthy |-> TRUE, fn_name |-> fn_name, id |-> id]

\* getattr(service_cls, rpc_name, None)
GetAttr(cls, name) == IF name \in DOMAIN cls THEN Some(cls[name]) ELSE None

\* setattr(service_cls, rpc_name, manager_fn)
SetAttr(cls, name, value) ==
    [n \in DOMAIN cls \cup {name} |-> IF n = name THEN value ELSE cls[n]]

\* Python truth of getattr's result
TruthyAttr(opt) == opt # None /\ opt[1].truthy

C6_AttachAlways(cls, rpc_name) == rpc_name # ""

\* the test of bind's loop: rpc_name and not getattr(service_cls, rpc_name, None)
Attaches(cls, rpc_name) == rpc_name # "" /\ ~TruthyAttr(GetAttr(cls, rpc_name))

\* the loop of AutoCrud.bind over self.method_names.items(), from item i on
RECURSIVE BindLoop(_, _, _, _)
BindLoop(cls, names, made, i) ==
    IF i > Len(OpOrder) THEN [cls |-> cls, made |-> made]
    ELSE LET manager_fn_name == OpOrder[i]
             rpc_name == names[manager_fn_name]
         IN  IF Attaches(cls, rpc_name)
             THEN BindLoop(SetAttr(cls, rpc_name, ManagerFn(manager_fn_name, made + 1)),
                           names, made + 1, i + 1)
             ELSE BindLoop(cls, names, made, i + 1)

(***************************************************************************)
(* Providers of every configuration bound to service classes that already  *)
(* define some attributes.                                                 *)
(***************************************************************************)
Overrides == {DEFAULT, "", "fetch"}

NameSpecs ==
    {ns \in [Ops -> Overrides] : Cardinality({op \in Ops : ns[op] # DEFAULT}) <= MaxOverrides}

Configs ==
    [model_cls : {"Widget"},
     entity_name : Optional({"gadget"}),
     entity_name_plural : Optional({"geese"}),
     names : NameSpecs]

\* the names a service author may have used: those the provider resolves, and another
AuthorNames(names) == ({names[op] : op \in Ops} \ {""}) \cup {"healthcheck"}

Classes(names) ==
    UNION {[D -> {UserAttr(TRUE), UserAttr(FALSE)}] :
            D \in {S \in SUBSET AuthorNames(names) : Cardinality(S) <= MaxUserAttrs}}

InitBind ==
    /\ session = NewSession(PKs)
    /\ last = NoCall
    /\ created = {}
    /\ written = EmptyTable(PKs)
    /\ allDefault = TRUE
    /\ NoQuery
    /\ NoWorkers
    /\ config \in Configs
    /\ method_names = MethodNames(config)
    /\ service_cls \in Classes(method_names)
    /\ cls0 = service_cls
    /\ cls1 = None
    /\ fnCount = 0
    /\ binds = 0

\* AutoCrud.bind
Bind ==
    /\ binds < MaxBinds
    /\ LET done == BindLoop(service_cls, method_names, fnCount, 1)
       IN  /\ service_cls' = done.cls
           /\ fnCount' = done.made
           /\ cls1' = IF binds = 0 THEN Some(done.cls) ELSE cls1
    /\ binds' = binds + 1
    /\ UNCHANGED <<config, method_names, cls0>>
    /\ UNCHANGED <<storageVars, queryVars, workerVars>>

NextBind == Bind

SpecBind == InitBind /\ [][NextBind]_vars

(***************************************************************************)
(* Workers.  For every inbound call the container makes a service          *)
(* instance, injects each provider's get_dependency result (the session    *)
(* provider's fresh session among them), runs every worker_setup, runs the *)
(* called method and discards the instance.  Workers interleave freely.    *)
(***************************************************************************)
C9_SharedFacade(heap) ==
    IF heap = <<>>
    THEN [heap |-> <<[model_cls |-> "Widget", session |-> None]>>, ref |-> 1]
    ELSE [heap |-> heap, ref |-> 1]

\* AutoCrud.get_dependency: self.db_storage_cls(self.model_cls), a new
\* DBStorage whose session is None
GetDependency(heap) ==
    [heap |-> Append(heap, [model_cls |-> "Widget", session |-> None]),
     ref |-> Len(heap) + 1]

\* AutoCrud.worker_setup: the session of worker_ctx.service goes to the
\* storage that same service instance holds
WorkerSetup(heap, service) ==
    LET session_ == service.session
        db_storage == service.db[1]
    IN  [heap EXCEPT ![db_storage].session = Some(session_)]

C10_CallsDelete(method, service, args, made) ==
    [manager |-> [id |-> made + 1, service |-> service.id, db_storage |-> service.db[1]],
     op |-> "delete", args |-> args]

\* _fn, the synthesized method, up to its delegation: the manager it
\* constructs and the manager operation it calls
Fn(method, service, args, made) ==
    [manager |-> [id |-> made + 1, service |-> service.id, db_storage |-> service.db[1]],
     op |-> method.fn_name, args |-> args]

\* _fn's return of what the manager operation returned
FnReturn(result) == Some(result)

\* getattr(manager, fn_name)(*args, **kwargs) at work: the storage the
\* manager was constructed with and the session that storage then holds,
\* beside the storage and session of the service instance that ran _fn
ManagerUse(heap, manager, service) ==
    [inv |-> service.id, facade |-> manager.db_storage,
     session |-> heap[manager.db_storage].session,
     own_facade |-> service.db, own_session |-> service.session]

Args == {<<1>>}
Results == {"row", "rows"}

\* the container gives the call a free worker (the first: workers are
\* interchangeable) and makes its service instance; the session provider
\* gives the instance a session of its own
Spawn(w) ==
    /\ binds >= 1
    /\ pc[w] = "idle"
    /\ \A v \in Workers : v < w => pc[v] # "idle"
    /\ spawns < MaxInvocations
    /\ spawns' = spawns + 1
    /\ svc' = [svc EXCEPT ![w] = Some([id |-> spawns', session |-> spawns', db |-> None])]
    /\ pc' = [pc EXCEPT ![w] = "spawned"]
    /\ UNCHANGED <<facades, call, mgrCount, invokes, uses>>
    /\ UNCHANGED <<storageVars, queryVars, bindVars>>

DoGetDependency(w) ==
    /\ pc[w] = "spawned"
    /\ LET got == GetDependency(facades)
       IN  /\ facades' = got.heap
           /\ svc' = [svc EXCEPT ![w] = Some([@[1] EXCEPT !.db = Some(got.ref)])]
    /\ pc' = [pc EXCEPT ![w] = "injected"]
    /\ UNCHANGED <<call, mgrCount, spawns, invokes, uses>>
    /\ UNCHANGED <<storageVars, queryVars, bindVars>>

DoWorkerSetup(w) ==
    /\ pc[w] = "injected"
    /\ facades' = WorkerSetup(facades, svc[w][1])
    /\ pc' = [pc EXCEPT ![w] = "ready"]
    /\ UNCHANGED <<svc, call, mgrCount, spawns, invokes, uses>>
    /\ UNCHANGED <<storageVars, queryVars, bindVars>>

\* the worker runs the method the call names: _fn constructs its manager
Invoke(w) ==
    /\ pc[w] = "ready"
    /\ \E rpc_name \in {n \in DOMAIN service_cls : service_cls[n].kind = "rpc"}, args \in Args :
        LET c == Fn(service_cls[rpc_name], svc[w][1], args, mgrCount)
        IN  call' = [call EXCEPT ![w] =
                        Some([rpc_name |-> rpc_name, passed |-> args, manager |-> c.manager,
                              op |-> c.op, args |-> c.args, result |-> None, ret |-> None])]
    /\ mgrCount' = mgrCount + 1
    /\ invokes' = invokes + 1
    /\ pc' = [pc EXCEPT ![w] = "running"]
    /\ UNCHANGED <<svc, facades, spawns, uses>>
    /\ UNCHANGED <<storageVars, queryVars, bindVars>>

\* the manager operation does its storage work and returns; _fn returns
Finish(w) ==
    /\ pc[w] = "running"
    /\ uses' = uses \cup {ManagerUse(facades, call[w][1].manager, svc[w][1])}
    /\ \E result \in Results :
        call' = [call EXCEPT ![w] =
                    Some([@[1] EXCEPT !.result = Some(result), !.ret = FnReturn(result)])]
    /\ pc' = [pc EXCEPT ![w] = "done"]
    /\ UNCHANGED <<svc, facades, mgrCount, spawns, invokes>>
    /\ UNCHANGED <<storageVars, queryVars, bindVars>>

\* the container discards the service instance
Teardown(w) ==
    /\ pc[w] = "done"
    /\ pc' = [pc EXCEPT ![w] = "idle"]
    /\ svc' = [svc EXCEPT ![w] = None]
    /\ call' = [call EXCEPT ![w] = None]
    /\ UNCHANGED <<facades, mgrCount, spawns, invokes, uses>>
    /\ UNCHANGED <<storageVars, queryVars, bindVars>>

WorkerConfigs ==
    {c \in Configs :
        /\ c.entity_name = None /\ c.entity_name_plural = None
        /\ \A op \in Ops \ {"get", "list"} : c.names[op] = DEFAULT
        /\ <<c.names.get, c.names.list>> \in {<<DEFAULT, DEFAULT>>, <<"fetch", "">>}}

InitWorkers ==
    /\ session = NewSession(PKs)
    /\ last = NoCall
    /\ created = {}
    /\ written = EmptyTable(PKs)
    /\ allDefault = TRUE
    /\ NoQuery
    /\ NoWorkers
    /\ config \in WorkerConfigs
    /\ method_names = MethodNames(config)
    /\ service_cls \in {cls \in Classes(method_names) :
                          \A n \in DOMAIN cls : n = "create_widget" /\ cls[n].truthy}
    /\ cls0 = service_cls
    /\ cls1 = None
    /\ fnCount = 0
    /\ binds = 0

\* binding comes first: no worker runs before the class is bound
BindOnce == binds = 0 /\ Bind

NextWorkers ==
    \/ BindOnce
    \/ \E w \in Workers : Spawn(w)
    \/ \E w \in Workers : DoGetDependency(w)
    \/ \E w \in Workers : DoWorkerSetup(w)
    \/ \E w \in Workers : Invoke(w)
    \/ \E w \in Workers : Finish(w)
    \/ \E w \in Workers : Teardown(w)

SpecWorkers == InitWorkers /\ [][NextWorkers]_vars

(***************************************************************************)
(* Properties of binding.                                                  *)
(***************************************************************************)
\* the names under which cls carries the function made for operation op
Synthesized(cls, op) ==
    {n \in DOMAIN cls : cls[n].kind = "rpc" /\ cls[n].fn_name = op}

Position(op) == CHOOSE i \in 1 .. Len(OpOrder) : OpOrder[i] = op

\* the resolved name of op was free when bind first reached it: no truthy
\* attribute of the class had it, and no operation earlier in the loop
NameFree(op) ==
    /\ ~TruthyAttr(GetAttr(cls0, method_names[op]))
    /\ \A other \in Ops :
        Position(other) < Position(op) => method_names[other] # method_names[op]

\* C5: bind leaves every attribute the service class already had, whatever
\* its value, as it was, and synthesizes methods only under names that were
\* not attributes of the class.
C5_NeverOverwrites ==
    binds >= 1 =>
        /\ \A op \in Ops :
            method_names[op] \in DOMAIN cls0
                => service_cls[method_names[op]] = cls0[method_names[op]]
        /\ \A n \in DOMAIN service_cls :
            service_cls[n].kind = "rpc" => n \notin DOMAIN cls0

\* C6 as stated: after any later bind the class is as the first bind left
\* it, and every operation that is not suppressed has exactly one
\* synthesized method.
C6_ExactlyOnePerOperation ==
    binds >= 1 =>
        /\ service_cls = cls1[1]
        /\ \A op \in Ops :
            method_names[op] # "" => Cardinality(Synthesized(service_cls, op)) = 1

\* C6 as amended: after any later bind the class is as the first bind left
\* it; an operation has one synthesized method when it is not suppressed and
\* its resolved name was free, and none otherwise.
C6_BindIdempotent ==
    binds >= 1 =>
        /\ service_cls = cls1[1]
        /\ \A op \in Ops :
            Cardinality(Synthesized(service_cls, op)) =
                IF method_names[op] # "" /\ NameFree(op) THEN 1 ELSE 0
        /\ \A n, m \in DOMAIN service_cls :
            (service_cls[n].kind = "rpc" /\ service_cls[m].kind = "rpc" /\ n # m)
                => service_cls[n].id # service_cls[m].id

C6_Witness ==
    /\ binds >= 2
    /\ \E op \in Ops : Synthesized(service_cls, op) # {}
    /\ \E op \in Ops : method_names[op] # "" /\ Synthesized(service_cls, op) = {}

HasStorage(w) == svc[w] # None /\ svc[w][1].db # None

\* C9: every worker has a facade of its own, made without a session;
\* worker_setup gives it the session of that worker's service instance before
\* the method runs; every storage operation of a synthesized method uses the
\* facade and the session of the worker that invoked it, and no facade and
\* no session serves two invocations.
C9_WorkerIsolation ==
    /\ \A w \in Workers :
        /\ pc[w] = "injected" => facades[svc[w][1].db[1]].session = None
        /\ pc[w] \in {"ready", "running", "done"}
            => facades[svc[w][1].db[1]].session = Some(svc[w][1].session)
    /\ \A v, w \in Workers :
        (v # w /\ HasStorage(v) /\ HasStorage(w)) => svc[v][1].db # svc[w][1].db
    /\ \A u \in uses :
        /\ Some(u.facade) = u.own_facade
        /\ u.session = Some(u.own_session)
    /\ \A u1, u2 \in uses :
        u1.inv # u2.inv => (u1.facade # u2.facade /\ u1.session # u2.session)

C9_Witness ==
    /\ \E v, w \in Workers : v # w /\ pc[v] = "done" /\ pc[w] = "running"
    /\ uses # {}

\* C10: a synthesized method constructs a new manager on every invocation,
\* bound to the invoking service instance and its facade, calls the manager
\* operation of the logical name it was attached for with the arguments it
\* was given, and returns what that operation returned.
C10_Delegation ==
    /\ mgrCount = invokes
    /\ \A w \in Workers :
        call[w] # None =>
            LET c == call[w][1]
            IN  /\ c.manager.service = svc[w][1].id
                /\ Some(c.manager.db_storage) = svc[w][1].db
                /\ \A op \in Ops :
                    (method_names[op] = c.rpc_name /\ NameFree(op)) => c.op = op
                /\ c.args = c.passed
                /\ pc[w] = "done" => (c.result # None /\ c.ret = c.result)
    /\ \A v, w \in Workers :
        (v # w /\ call[v] # None /\ call[w] # None)
            => call[v][1].manager.id # call[w][1].manager.id

C10_Witness ==
    \E v, w \in Workers :
        /\ v # w
        /\ pc[v] = "done" /\ call[v][1].rpc_name = "fetch" /\ call[v][1].op = "get"
        /\ call[v][1].ret = Some("rows")
        /\ pc[w] = "running" /\ call[w][1].op = "delete"

====
